---- MODULE Spec2Model ----
(***************************************************************************)
(* Human-Proximity-Attention-Tracker.                                      *)
(*                                                                         *)
(* Two programs share the repository:                                      *)
(*   - face_detection.py drives FaceTracker (Old_code/tracker.py), which   *)
(*     keys entities by a positional track id;                             *)
(*   - main.py runs its own frame loop, which keys entities by the         *)
(*     identity id FaceMemory.get_id returns.                              *)
(* The variable `program` says which of the two is running; its other       *)
(* values stand for a class or a function of the repository called on its   *)
(* own.                                                                     *)
(*                                                                         *)
(* Units: time is in seconds, pixels are integers. Distances are kept as   *)
(* squared distances (x ** 0.5 is monotone, so order and comparisons are   *)
(* the same); the factor 0.6 is kept as 6/10 by scaling both sides.        *)
(***************************************************************************)
EXTENDS Integers, Sequences, FiniteSets, TLC

VARIABLES
    program,            \* "face_detection" or "main": the script that runs;
                        \* "memory": a FaceMemory called on its own;
                        \* "audio": an AudioPlayer called on its own;
                        \* "pose": is_facing_camera called on its own;
                        \* "scrfd": SCRFD.detect called on its own
    clock,              \* the last value time.time() returned
    \* ---- face_detection.py main loop and its FaceTracker (Old_code/tracker.py)
    face_tracking,      \* tracker.face_tracking: face_id -> record
    face_history,       \* tracker.face_history: face_id -> record
    next_face_id,       \* tracker.next_face_id
    curr_detections,    \* the list tracker.update returned (detections with face_id)
    assignments,        \* what _greedy_assignment returned in that update
    prev_time,          \* prev_time of the loop (0 before the first frame)
    dt,                 \* dt of the last iteration
    nupdates,           \* number of iterations so far (bounded)
    \* ---- main.py main loop (face_tracking, face_history, prev_time and dt are
    \*      its locals of the same names when program = "main")
    db,                 \* memory.db: identity id -> embedding
    next_id,            \* memory.next_id
    fid,                \* the local fid (NoId while it is not assigned)
    frame_count,        \* frame_count
    pc,                 \* "loop", "finally" (the loop was left) or "done"
    exc,                \* the exception that left the loop, or "none"
    report,             \* all_faces as save_report wrote it
    is_raspberry_pi,    \* config.IS_RASPBERRY_PI: frames come from Picamera2
    read_ok,            \* the last frame acquisition gave a frame
    teardown,           \* the calls the finally block has made
    \* ---- FaceMemory (db and next_id above are its fields)
    thresh,             \* memory.thresh, in hundredths
    arg,                \* the embedding of the last get_id call (<<>> before it)
    ret,                \* what the last get_id call returned
    ncalls,             \* number of get_id calls so far (bounded)
    \* ---- AudioPlayer (audio_player.py) and its playback device
    audio_enabled,      \* audio.enabled
    restart_threshold,  \* audio.restart_threshold, in seconds
    playing,            \* the device is playing the track
    audio_calls,        \* what the last handler called on the device
    num_tracked,        \* num_tracked of the last manage call
    nmanage,            \* number of manage calls on the player on its own (bounded)
    \* ---- a function called on its own: is_facing_camera, SCRFD.detect
    input,              \* the arguments of the call
    output,             \* what the call returned (<<>> before it)
    called              \* the call has been made

trackerVars == <<next_face_id, curr_detections, assignments, nupdates>>

mainVars == <<db, next_id, fid, frame_count, pc, exc, report, is_raspberry_pi,
              read_ok, teardown>>

memoryVars == <<thresh, arg, ret, ncalls>>

audioVars == <<audio_enabled, restart_threshold, playing, audio_calls,
               num_tracked, nmanage>>

callVars == <<input, output, called>>

vars == <<program, clock, face_tracking, face_history, prev_time, dt, memoryVars,
          audioVars, callVars,
          trackerVars, mainVars>>

---------------------------------------------------------------------------
(* Bounds of the model *)
MaxUpdates == 3     \* iterations of the face_detection.py loop per run
MaxDet     == 2     \* detections per frame
MaxFrames  == 4     \* iterations of the main.py loop per run
MaxStream  == 5     \* frames of a constant stream
MaxCalls   == 4     \* get_id calls on a FaceMemory called on its own
MaxManage  == 5     \* manage calls on an AudioPlayer called on its own
MaxTracked == 2     \* num_tracked of such a call
MaxCand    == 3     \* anchors with a score worth a look, per SCRFD.detect call
StartClock == 10    \* time.time() when the program starts

(* Program constants *)
STALE_FACE_TIMEOUT == 3     \* config.py: STALE_FACE_TIMEOUT = 3.0
MatchFloor         == 50    \* tracker.py: max(50, ...)
SizeFactorNum      == 6     \* tracker.py: max(w, h) * 0.6, as 6/10
SizeFactorDen      == 10
SimilarityThresh   == 45    \* main.py: similarity_thresh=0.45, in hundredths
ReIdCadence        == 10    \* main.py: frame_count % 10
NoId               == 0     \* None, or a name not assigned yet (ids start at 1)
RestartThreshold   == 2     \* audio_player.py: restart_threshold=2.0
IS_RASPBERRY_PI    == FALSE \* config.py: IS_RASPBERRY_PI = False
INPUT_SIZE         == 320   \* scrfd.py: self.input_size = 320
NmsScoreThresh     == 60    \* scrfd.py: NMSBoxes(..., 0.6, 0.4), in hundredths
NmsIouNum          == 4     \* scrfd.py: NMSBoxes(..., 0.6, 0.4), as 4/10
NmsIouDen          == 10
NumKps             == 5     \* scrfd.py: kps.reshape(-1, 5, 2)

---------------------------------------------------------------------------
(* Helpers *)
Max2(a, b) == IF a >= b THEN a ELSE b

EmptyDict == [k \in {} |-> 0]

\* A Python dict is iterated in insertion order. Ids are inserted in
\* increasing order and deleting keeps the order of the rest, so the
\* iteration order is the ascending order of the keys.
RECURSIVE KeysInOrder(_)
KeysInOrder(S) ==
    IF S = {} THEN <<>>
    ELSE LET m == CHOOSE x \in S : \A y \in S : x <= y
         IN  <<m>> \o KeysInOrder(S \ {m})

\* d with d[k] (re)bound to v
DictSet(d, k, v) == [x \in DOMAIN d \cup {k} |-> IF x = k THEN v ELSE d[x]]

\* d without the keys of S
DictDel(d, S) == [x \in DOMAIN d \ S |-> d[x]]

---------------------------------------------------------------------------
(* Old_code/detector.py: FaceDetector.build_detections                     *)

\* Face boxes are (x, y, w, h). The boxes of the model have even sizes, so
\* that w / 2 and h / 2 are whole pixels.
\*   FaceA: centre (50, 50), threshold max(50, 60) = 60
\*   FaceB: centre (60, 50), 10 px from FaceA
\*   FaceF: centre (106, 50), 56 px from FaceA, size 60: threshold max(50, 36) = 50
\*   FaceD: centre (550, 50), far from all
BuildDetection(face) ==
    LET x == face[1]  y == face[2]  w == face[3]  h == face[4]
    IN  [rect |-> face, center |-> <<x + (w \div 2), y + (h \div 2)>>, face_id |-> NoId]

BuildDetections(faces) == [i \in 1..Len(faces) |-> BuildDetection(faces[i])]

---------------------------------------------------------------------------
(* Old_code/tracker.py: FaceTracker                                        *)

\* ((px - cx) ** 2 + (py - cy) ** 2) ** 0.5, squared
SquaredDistBadSign(p, c) == (p[1] + c[1]) * (p[1] + c[1]) + (p[2] + c[2]) * (p[2] + c[2])

SquaredDist(p, c) == (p[1] - c[1]) * (p[1] - c[1]) + (p[2] - c[2]) * (p[2] - c[2])

\* _compute_distances: [(dist, i, fid)] for i over the detections and, inside,
\* fid over self.face_tracking
ComputeDistances(ft, dets) ==
    LET fids == KeysInOrder(DOMAIN ft)
        n    == Len(fids)
    IN  [k \in 1..(Len(dets) * n) |->
            LET i == ((k - 1) \div n) + 1
                j == ((k - 1) % n) + 1
            IN  <<SquaredDist(ft[fids[j]].center, dets[i].center), i, fids[j]>>]

\* pairs.sort(key=lambda t: t[0]): a stable sort on the distance
\* (the largest distance first)
RECURSIVE InsertByDistFarthestFirst(_, _)
InsertByDistFarthestFirst(t, s) ==
    IF s = <<>> \/ t[1] >= Head(s)[1] THEN <<t>> \o s
    ELSE <<Head(s)>> \o InsertByDistFarthestFirst(t, Tail(s))

RECURSIVE InsertByDist(_, _)
InsertByDist(t, s) ==
    IF s = <<>> \/ t[1] <= Head(s)[1] THEN <<t>> \o s
    ELSE <<Head(s)>> \o InsertByDist(t, Tail(s))

RECURSIVE SortByDist(_)
SortByDist(s) ==
    IF s = <<>> THEN <<>> ELSE InsertByDist(Head(s), SortByDist(Tail(s)))

\* threshold = max(50, max(w, h) * 0.6), times SizeFactorDen
ThresholdScaled(rect) ==
    Max2(MatchFloor * SizeFactorDen, Max2(rect[3], rect[4]) * SizeFactorNum)

\* dist <= threshold
WithinThresholdAlways(d2, rect) == TRUE

WithinThreshold(d2, rect) ==
    d2 * SizeFactorDen * SizeFactorDen <= ThresholdScaled(rect) * ThresholdScaled(rect)

\* the test `i in assigned_curr or fid in assigned_prev`
ClaimedOnlyCurr(i, prev, assigned_curr, assigned_prev) == i \in assigned_curr

Claimed(i, prev, assigned_curr, assigned_prev) ==
    i \in assigned_curr \/ prev \in assigned_prev

\* the loop of _greedy_assignment over the sorted pairs
RECURSIVE GreedyLoop(_, _, _, _, _)
GreedyLoop(pairs, dets, assigned_curr, assigned_prev, assigned) ==
    IF pairs = <<>> THEN assigned
    ELSE LET d2   == Head(pairs)[1]
             i    == Head(pairs)[2]
             prev == Head(pairs)[3]
         IN  IF Claimed(i, prev, assigned_curr, assigned_prev)
             THEN GreedyLoop(Tail(pairs), dets, assigned_curr, assigned_prev, assigned)
             ELSE IF WithinThreshold(d2, dets[i].rect)
             THEN GreedyLoop(Tail(pairs), dets, assigned_curr \cup {i},
                             assigned_prev \cup {prev}, DictSet(assigned, i, prev))
             ELSE GreedyLoop(Tail(pairs), dets, assigned_curr, assigned_prev, assigned)

\* _greedy_assignment: {curr_idx -> face_id}
GreedyAssignment(dets, pairs) == GreedyLoop(SortByDist(pairs), dets, {}, {}, EmptyDict)

NewFace(center, now) ==
    [center |-> center, attention_time |-> 0, total_time |-> 0, last_seen |-> now]

\* face_id = self.next_face_id
MintedIdByCount(ft, next) == Cardinality(DOMAIN ft) + 1

MintedId(ft, next) == next

\* self.next_face_id += 1
NextAfterMintSame(next) == next

NextAfterMint(next) == next + 1

\* _assign_ids, detections i..Len(dets), on st = [ft, next, dets]
RECURSIVE AssignIdsFrom(_, _, _, _)
AssignIdsFrom(i, st, assigned, now) ==
    IF i > Len(st.dets) THEN st
    ELSE IF i \in DOMAIN assigned
    THEN AssignIdsFrom(i + 1,
            [st EXCEPT !.dets[i].face_id = assigned[i]], assigned, now)
    ELSE LET face_id == MintedId(st.ft, st.next)
         IN  AssignIdsFrom(i + 1,
                [ft   |-> DictSet(st.ft, face_id, NewFace(st.dets[i].center, now)),
                 next |-> NextAfterMint(st.next),
                 dets |-> [st.dets EXCEPT ![i].face_id = face_id]], assigned, now)

AssignIds(ft, next, dets, assigned, now) ==
    AssignIdsFrom(1, [ft |-> ft, next |-> next, dets |-> dets], assigned, now)

\* the body of the loop of _update_tracking for one detection
CreditAttentionOnly(tracked, center, now, d) ==
    [tracked EXCEPT !.center = center, !.last_seen = now,
                    !.attention_time = @ + d]

Credit(tracked, center, now, d) ==
    [tracked EXCEPT !.center = center, !.last_seen = now,
                    !.total_time = @ + d, !.attention_time = @ + d]

\* _update_tracking, detections i..Len(dets)
RECURSIVE UpdateTrackingFrom(_, _, _, _, _)
UpdateTrackingFrom(i, ft, dets, now, d) ==
    IF i > Len(dets) THEN ft
    ELSE UpdateTrackingFrom(i + 1,
            [ft EXCEPT ![dets[i].face_id] = Credit(@, dets[i].center, now, d)],
            dets, now, d)

\* (every active face credited, referenced by a detection or not)
UpdateTrackingAll(ft, dets, now, d) ==
    [f \in DOMAIN ft |-> [ft[f] EXCEPT !.total_time = @ + d, !.attention_time = @ + d]]

UpdateTracking(ft, dets, now, d) == UpdateTrackingFrom(1, ft, dets, now, d)

\* _cleanup_stale: the ids to evict
StaleIdsAtTimeout(ft, now) ==
    {f \in DOMAIN ft : now - ft[f].last_seen >= STALE_FACE_TIMEOUT}

StaleIds(ft, now) == {f \in DOMAIN ft : now - ft[f].last_seen > STALE_FACE_TIMEOUT}

\* _cleanup_stale: [ft, fh] afterwards
CleanupStaleKeepActive(ft, fh, now) ==
    LET stale == StaleIds(ft, now)
    IN  [ft |-> ft,
         fh |-> [f \in DOMAIN fh \cup stale |-> IF f \in stale THEN ft[f] ELSE fh[f]]]

CleanupStale(ft, fh, now) ==
    LET stale == StaleIds(ft, now)
    IN  [ft |-> DictDel(ft, stale),
         fh |-> [f \in DOMAIN fh \cup stale |-> IF f \in stale THEN ft[f] ELSE fh[f]]]

\* get_summary: the active ids with their times
GetSummary(ft) ==
    [f \in DOMAIN ft |-> [attention_s |-> ft[f].attention_time,
                          total_s     |-> ft[f].total_time]]

\* get_all_faces_history: active faces, then history written over them
GetAllFacesHistory(ft, fh) ==
    [f \in DOMAIN ft \cup DOMAIN fh |->
        IF f \in DOMAIN fh
        THEN [attention_time |-> fh[f].attention_time, total_time |-> fh[f].total_time]
        ELSE [attention_time |-> ft[f].attention_time, total_time |-> ft[f].total_time]]

\* FaceTracker.update(curr_detections, curr_time, dt):
\* [ft, fh, next, dets, assigned]
UpdateCleanupFirst(ft, fh, next, dets, now, d) ==
    LET c        == CleanupStale(ft, fh, now)
        pairs    == ComputeDistances(c.ft, dets)
        assigned == GreedyAssignment(dets, pairs)
        a        == AssignIds(c.ft, next, dets, assigned, now)
        u        == UpdateTracking(a.ft, a.dets, now, d)
    IN  [ft |-> u, fh |-> c.fh, next |-> a.next, dets |-> a.dets,
         assigned |-> assigned]

Update(ft, fh, next, dets, now, d) ==
    LET pairs    == ComputeDistances(ft, dets)
        assigned == GreedyAssignment(dets, pairs)
        a        == AssignIds(ft, next, dets, assigned, now)
        u        == UpdateTracking(a.ft, a.dets, now, d)
        c        == CleanupStale(u, fh, now)
    IN  [ft |-> c.ft, fh |-> c.fh, next |-> a.next, dets |-> a.dets,
         assigned |-> assigned]

---------------------------------------------------------------------------
(* main.py: FaceMemory                                                      *)

\* Embeddings are unit vectors (ArcFace.get_embedding divides by the norm).
\* The model keeps them multiplied by 5, with whole components, and keeps
\* similarities in hundredths: np.dot(a, b) * 100 = Dot(a, b) * 100 / 25.
Dot(a, b) == a[1] * b[1] + a[2] * b[2]

\* FaceMemory.cosine, in hundredths
Cosine(a, b) == 4 * Dot(a, b)

\* (the loop leaves at the first stored embedding with a similarity above 0)
BestMatchFirstPositive(keys, store, emb, best_id, best_sim) ==
    LET pos == {i \in 1..Len(keys) : Cosine(emb, store[keys[i]]) > best_sim}
    IN  IF pos = {} THEN [id |-> best_id, sim |-> best_sim]
        ELSE LET i == CHOOSE i \in pos : \A j \in pos : i <= j
             IN  [id |-> keys[i], sim |-> Cosine(emb, store[keys[i]])]

\* the loop of get_id over self.db.items(): [id, sim] of the best match
RECURSIVE BestMatch(_, _, _, _, _)
BestMatch(keys, store, emb, best_id, best_sim) ==
    IF keys = <<>> THEN [id |-> best_id, sim |-> best_sim]
    ELSE LET sim == Cosine(emb, store[Head(keys)])
         IN  IF sim > best_sim
             THEN BestMatch(Tail(keys), store, emb, Head(keys), sim)
             ELSE BestMatch(Tail(keys), store, emb, best_id, best_sim)

\* FaceMemory.get_id: [id, db, next_id]
\* (without self.db[fid] = emb)
GetIdForgetStore(store, next, th, emb) ==
    LET best == BestMatch(KeysInOrder(DOMAIN store), store, emb, NoId, 0)
    IN  IF best.sim > th
        THEN [id |-> best.id, db |-> store, next_id |-> next]
        ELSE [id |-> next, db |-> store, next_id |-> next + 1]

\* (a match stores the new embedding as the reference of the matched id)
GetIdRefreshMatch(store, next, th, emb) ==
    LET best == BestMatch(KeysInOrder(DOMAIN store), store, emb, NoId, 0)
    IN  IF best.sim > th
        THEN [id |-> best.id,
              db |-> IF best.id \in DOMAIN store
                     THEN DictSet(store, best.id, emb) ELSE store,
              next_id |-> next]
        ELSE [id |-> next, db |-> DictSet(store, next, emb), next_id |-> next + 1]

GetId(store, next, th, emb) ==
    LET best == BestMatch(KeysInOrder(DOMAIN store), store, emb, NoId, 0)
    IN  IF best.sim > th
        THEN [id |-> best.id, db |-> store, next_id |-> next]
        ELSE [id |-> next, db |-> DictSet(store, next, emb), next_id |-> next + 1]

---------------------------------------------------------------------------
(* main.py: is_facing_camera                                                *)

Abs(x) == IF x >= 0 THEN x ELSE 0 - x

\* landmarks = <<le, re, nose, lm, rm>>, each <<x, y>> in whole pixels.
\* yaw_ratio < 0.25: nose_offset = |2 nose.x - le.x - re.x| / 2, so the test is
\* 2 |2 nose.x - le.x - re.x| < eye_dist; eye_dist = 0 gives the ratio 1.
YawOk(landmarks) ==
    LET le == landmarks[1]  re == landmarks[2]  nose == landmarks[3]
        eye_dist == Abs(le[1] - re[1])
    IN  /\ eye_dist > 0
        /\ 2 * Abs(2 * nose[1] - le[1] - re[1]) < eye_dist

\* pitch_ratio < 0.7 with pitch_ratio = (P / 2) / (Q / 2 + 1e-6), where
\* P = |2 nose.y - le.y - re.y| and Q = lm.y + rm.y - le.y - re.y are whole:
\*   Q > 0: 10 P < 7 Q + 1.4e-5, that is 10 P <= 7 Q
\*   Q = 0: P / 2e-6 < 0.7, that is P = 0
\*   Q < 0: the ratio is <= 0
PitchOk(landmarks) ==
    LET le == landmarks[1]  re == landmarks[2]  nose == landmarks[3]
        lm == landmarks[4]  rm == landmarks[5]
        P  == Abs(2 * nose[2] - le[2] - re[2])
        Q  == lm[2] + rm[2] - le[2] - re[2]
    IN  IF Q > 0 THEN 10 * P <= 7 * Q
        ELSE IF Q = 0 THEN P = 0
        ELSE TRUE

is_facing_camera(landmarks) == YawOk(landmarks) /\ PitchOk(landmarks)

---------------------------------------------------------------------------
(* main.py: main                                                            *)

NewRecord(elapsed, now) ==
    [attention_time |-> 0, total_time |-> 0, start_time |-> elapsed,
     end_time |-> elapsed, last_seen |-> now]

\* lines 180-183: the four updates of face_tracking[fid]
CreditRecord(rec, elapsed, now, d) ==
    [rec EXCEPT !.last_seen = now, !.end_time = elapsed,
                !.total_time = @ + d, !.attention_time = @ + d]

\* lines 180-183 left after the first k of the four updates (a
\* KeyboardInterrupt is raised between two statements)
CreditRecordUpTo(rec, elapsed, now, d, k) ==
    [rec EXCEPT !.last_seen      = IF k >= 1 THEN now ELSE @,
                !.end_time       = IF k >= 2 THEN elapsed ELSE @,
                !.total_time     = IF k >= 3 THEN @ + d ELSE @,
                !.attention_time = IF k >= 4 THEN @ + d ELSE @]

\* The body of `for (x1, y1, x2, y2), lm in zip(boxes, landmarks)` for the
\* detection det = [lm, crop_empty, emb], on st = [ft, db, next_id, fid, raised].
\* Reading fid before it is assigned raises UnboundLocalError.
ProcessDetection(st, det, count, elapsed, now, d) ==
    IF ~is_facing_camera(det.lm) THEN st
    ELSE IF det.crop_empty THEN st
    ELSE LET g  == IF count % ReIdCadence = 0
                   THEN GetId(st.db, st.next_id, thresh, det.emb)
                   ELSE [id |-> st.fid, db |-> st.db, next_id |-> st.next_id]
         IN  IF g.id = NoId
             THEN [st EXCEPT !.raised = "UnboundLocalError"]
             ELSE LET ft0 == IF g.id \in DOMAIN st.ft THEN st.ft
                             ELSE DictSet(st.ft, g.id, NewRecord(elapsed, now))
                  IN  [ft      |-> [ft0 EXCEPT ![g.id] = CreditRecord(@, elapsed, now, d)],
                       db      |-> g.db,
                       next_id |-> g.next_id,
                       fid     |-> g.id,
                       raised  |-> st.raised]

\* The same body, left by a KeyboardInterrupt after the first k updates of
\* lines 180-183 (the detection reaches those lines)
ProcessDetectionInterrupted(st, det, count, elapsed, now, d, k) ==
    LET g   == IF count % ReIdCadence = 0
               THEN GetId(st.db, st.next_id, thresh, det.emb)
               ELSE [id |-> st.fid, db |-> st.db, next_id |-> st.next_id]
        ft0 == IF g.id \in DOMAIN st.ft THEN st.ft
               ELSE DictSet(st.ft, g.id, NewRecord(elapsed, now))
    IN  [ft      |-> [ft0 EXCEPT ![g.id] = CreditRecordUpTo(@, elapsed, now, d, k)],
         db      |-> g.db,
         next_id |-> g.next_id,
         fid     |-> g.id,
         raised  |-> "KeyboardInterrupt"]

\* the detection reaches lines 180-183: frontal, with a crop and an id
ReachesCredit(st, det, count) ==
    /\ is_facing_camera(det.lm)
    /\ ~det.crop_empty
    /\ (count % ReIdCadence = 0
           => GetId(st.db, st.next_id, thresh, det.emb).id # NoId)
    /\ (count % ReIdCadence # 0 => st.fid # NoId)

RECURSIVE ProcessDetections(_, _, _, _, _, _)
ProcessDetections(st, dets, count, elapsed, now, d) ==
    IF dets = <<>> \/ st.raised # "none" THEN st
    ELSE ProcessDetections(ProcessDetection(st, Head(dets), count, elapsed, now, d),
                           Tail(dets), count, elapsed, now, d)

\* lines 191-197: [ft, fh] after the stale records moved to face_history
MoveStale(ft, fh, now) ==
    LET stale == StaleIds(ft, now)
    IN  [ft |-> DictDel(ft, stale),
         fh |-> [f \in DOMAIN fh \cup stale |-> IF f \in stale THEN ft[f] ELSE fh[f]]]

\* (only the faces that were moved to face_history are reported)
SaveReportHistoryOnly(ft, fh) == fh

\* save_report: all_faces.update(face_history); all_faces.update(face_tracking)
SaveReport(ft, fh) ==
    [f \in DOMAIN fh \cup DOMAIN ft |-> IF f \in DOMAIN ft THEN ft[f] ELSE fh[f]]

\* the calls of the finally block, in order
Finally(pi) ==
    <<IF pi THEN "picam2.stop" ELSE "cap.release", "audio.stop", "save_report",
      "plot_graph">>

---------------------------------------------------------------------------
(* audio_player.py: AudioPlayer. The device is the vlc media player; the
   model keeps whether it is playing, and the calls made on it.           *)

\* time_remaining() when it is unknown (None)
NoRem == 0 - 1

\* is_playing(): self._player.is_playing() == 1, False when disabled
IsPlaying(enabled, device_playing) == enabled /\ device_playing

\* play(): the calls made on the device
Play(enabled) == IF ~enabled THEN <<>> ELSE <<"play">>

\* stop(): the calls made on the device
Stop(enabled) == IF ~enabled THEN <<>> ELSE <<"stop">>

\* manage(num_tracked) on a player with self.enabled = enabled and
\* self.restart_threshold = rt, with is_playing the result of is_playing() and
\* rem that of time_remaining(): the calls made on the device
\* (play() whenever faces are tracked)
ManageIgnoresPlaying(enabled, rt, is_playing, rem, n) ==
    IF ~enabled THEN <<>>
    ELSE IF n > 0 THEN Play(enabled)
    ELSE <<>>

\* (stop() when nobody is tracked any more)
ManageStopsWhenEmpty(enabled, rt, is_playing, rem, n) ==
    IF ~enabled THEN <<>>
    ELSE IF n > 0 /\ ~is_playing THEN Play(enabled)
    ELSE IF n = 0 /\ is_playing THEN Stop(enabled)
    ELSE <<>>

\* (play() whenever the device is silent, tracked faces or not)
ManageStartsWhenEmpty(enabled, rt, is_playing, rem, n) ==
    IF ~enabled THEN <<>>
    ELSE IF ~is_playing THEN Play(enabled)
    ELSE <<>>

\* (the track is also restarted when it is about to end)
ManageRestartsNearEnd(enabled, rt, is_playing, rem, n) ==
    IF ~enabled THEN <<>>
    ELSE IF n > 0 /\ ~is_playing THEN Play(enabled)
    ELSE IF n > 0 /\ rem # NoRem /\ rem <= rt THEN Play(enabled)
    ELSE <<>>

Manage(enabled, rt, is_playing, rem, n) ==
    IF ~enabled THEN <<>>
    ELSE IF n > 0 /\ ~is_playing THEN Play(enabled)
    ELSE <<>>

\* the device after the calls: play starts the track, stop ends it
RECURSIVE DeviceAfter(_, _)
DeviceAfter(device_playing, calls) ==
    IF calls = <<>> THEN device_playing
    ELSE DeviceAfter(Head(calls) = "play", Tail(calls))

\* The track may have come to its end since the last call (ends).
DeviceEnds == {e \in BOOLEAN : e => playing}

\* what time_remaining() returns in the loops: unknown when nothing plays
LoopRemaining(is_playing) == IF is_playing THEN RestartThreshold + 1 ELSE NoRem

\* audio.manage(n) in an iteration of a loop
AudioManage(n, ends) ==
    LET is_playing == IsPlaying(audio_enabled, playing /\ ~ends)
        calls      == Manage(audio_enabled, restart_threshold, is_playing,
                             LoopRemaining(is_playing), n)
    IN  /\ audio_calls' = calls
        /\ playing' = DeviceAfter(playing /\ ~ends, calls)
        /\ num_tracked' = n
        /\ UNCHANGED <<audio_enabled, restart_threshold, nmanage>>

---------------------------------------------------------------------------
(* scrfd.py: SCRFD. Scores are in hundredths; pixels, anchors and regressions
   are whole numbers. An image is <<h, w>>.                                 *)

\* _anchors(stride): the centres (i + 0.5) * stride of the cells
Anchors(stride) ==
    LET f == INPUT_SIZE \div stride
    IN  { <<((2 * i + 1) * stride) \div 2, ((2 * j + 1) * stride) \div 2>> :
            i \in 0..(f - 1), j \in 0..(f - 1) }

\* preprocess(img): scale = input_size / max(h, w), kept as num / den, and the
\* padding left and top of the resized image in the canvas
Preprocess(img) ==
    LET h  == img[1]
        w  == img[2]
        m  == Max2(h, w)
        nh == (h * INPUT_SIZE) \div m
        nw == (w * INPUT_SIZE) \div m
    IN  [num  |-> INPUT_SIZE, den |-> m,
         left |-> (INPUT_SIZE - nw) \div 2,
         top  |-> (INPUT_SIZE - nh) \div 2]

\* v / scale. The images of the model have max(h, w) a multiple of
\* input_size, so the quotient is whole (and astype(int) leaves it as it is).
Unscale(v, pre) == (v * pre.den) \div pre.num

\* lines 63-67: the corners <<x1, y1, x2, y2>> of the box of the candidate c =
\* [stride, anchor, score, box, kps]
DecodeBox(c, pre) ==
    LET cx == c.anchor[1]
        cy == c.anchor[2]
    IN  << Unscale(cx - c.box[1] * c.stride - pre.left, pre),
           Unscale(cy - c.box[2] * c.stride - pre.top, pre),
           Unscale(cx + c.box[3] * c.stride - pre.left, pre),
           Unscale(cy + c.box[4] * c.stride - pre.top, pre) >>

\* lines 71-73: the landmarks of the candidate
DecodeKps(c, pre) ==
    [j \in 1..NumKps |-> << Unscale(c.kps[j][1] - pre.left, pre),
                           Unscale(c.kps[j][2] - pre.top, pre) >>]

\* lines 54-61, 75-84: the anchors with scores > thresh, stride after stride
\* (outs lists the anchors of the three strides in that order)
Masked(outs, th) == SelectSeq(outs, LAMBDA c : c.score > th)

\* cv2.dnn.NMSBoxes takes boxes as rectangles <<x, y, width, height>>.
RectArea(r) == r[3] * r[4]

RectIntersection(a, b) ==
    LET x1 == Max2(a[1], b[1])
        y1 == Max2(a[2], b[2])
        x2 == IF a[1] + a[3] <= b[1] + b[3] THEN a[1] + a[3] ELSE b[1] + b[3]
        y2 == IF a[2] + a[4] <= b[2] + b[4] THEN a[2] + a[4] ELSE b[2] + b[4]
    IN  IF x2 - x1 <= 0 \/ y2 - y1 <= 0 THEN 0 ELSE (x2 - x1) * (y2 - y1)

\* the overlap (intersection over union) of two rectangles is > 0.4
RectOverlaps(a, b) ==
    LET ab == RectIntersection(a, b)
    IN  IF RectArea(a) + RectArea(b) <= 0 THEN TRUE
        ELSE NmsIouDen * ab > NmsIouNum * (RectArea(a) + RectArea(b) - ab)

\* the indices with scores > score_threshold, by falling score (a stable
\* sort: equal scores keep their order)
RECURSIVE InsertByScore(_, _, _)
InsertByScore(order, i, scores) ==
    IF order = <<>> THEN <<i>>
    ELSE IF scores[Head(order)] >= scores[i]
         THEN <<Head(order)>> \o InsertByScore(Tail(order), i, scores)
         ELSE <<i>> \o order

RECURSIVE ScoreOrder(_, _, _)
ScoreOrder(scores, n, score_threshold) ==
    IF n = 0 THEN <<>>
    ELSE LET rest == ScoreOrder(scores, n - 1, score_threshold)
         IN  IF scores[n] > score_threshold
             THEN InsertByScore(rest, n, scores)
             ELSE rest

\* the greedy pass: a box is kept unless it overlaps a box kept before it
RECURSIVE NmsLoop(_, _, _)
NmsLoop(order, boxes, kept) ==
    IF order = <<>> THEN kept
    ELSE LET i == Head(order)
         IN  IF \E k \in 1..Len(kept) : RectOverlaps(boxes[i], boxes[kept[k]])
             THEN NmsLoop(Tail(order), boxes, kept)
             ELSE NmsLoop(Tail(order), boxes, Append(kept, i))

\* cv2.dnn.NMSBoxes(boxes, scores, score_threshold, nms_threshold): the
\* indices kept
NMSBoxes(boxes, scores, score_threshold) ==
    NmsLoop(ScoreOrder(scores, Len(scores), score_threshold), boxes, <<>>)

\* detect(img, thresh = th) with outs what the network gave: the boxes and
\* the landmarks returned, and the local keep (indices into the candidates)
Detect(img, th, outs) ==
    LET pre    == Preprocess(img)
        cand   == Masked(outs, th)
        boxes  == [i \in 1..Len(cand) |-> DecodeBox(cand[i], pre)]
        scores == [i \in 1..Len(cand) |-> cand[i].score]
        kps    == [i \in 1..Len(cand) |-> DecodeKps(cand[i], pre)]
        keep   == NMSBoxes(boxes, scores, NmsScoreThresh)
    IN  IF cand = <<>> THEN [boxes |-> <<>>, kps |-> <<>>, keep |-> <<>>]
        ELSE [boxes |-> [i \in 1..Len(keep) |-> boxes[keep[i]]],
              kps   |-> [i \in 1..Len(keep) |-> kps[keep[i]]],
              keep  |-> keep]

---------------------------------------------------------------------------
(* Inputs *)

\* time.time() between two readings: the wall clock may step back; the other
\* steps sit on the two sides of the stale timeout
ClockSteps == {0 - 1, STALE_FACE_TIMEOUT, STALE_FACE_TIMEOUT + 1}

FaceA == <<0, 0, 100, 100>>
FaceB == <<10, 0, 100, 100>>
FaceF == <<76, 20, 60, 60>>
FaceD == <<500, 0, 100, 100>>

\* What detect_faces may return for a frame
CandidateFrames ==
    { <<>>, <<FaceA>>, <<FaceB>>, <<FaceF>>, <<FaceD>>,
      <<FaceA, FaceB>>, <<FaceB, FaceA>>, <<FaceA, FaceD>>, <<FaceF, FaceD>>,
      <<FaceA, FaceB, FaceF>> }

FrameFaces == {f \in CandidateFrames : Len(f) <= MaxDet}

Faces == {FaceA, FaceB, FaceF, FaceD}

StreamSteps == {s \in (0 - 1)..STALE_FACE_TIMEOUT : s # 0}

---------------------------------------------------------------------------
(* face_detection.py: main, one iteration of the loop *)
FaceDetectionIteration(faces, step) ==
    /\ program = "face_detection"
    /\ LET now == clock + step
           d   == IF prev_time # 0 THEN now - prev_time ELSE 0
           r   == Update(face_tracking, face_history, next_face_id,
                         BuildDetections(faces), now, d)
       IN  /\ clock' = now
           /\ dt' = d
           /\ prev_time' = now
           /\ face_tracking'   = r.ft
           /\ face_history'    = r.fh
           /\ next_face_id'    = r.next
           /\ curr_detections' = r.dets
           /\ assignments'     = r.assigned
           /\ \E ends \in DeviceEnds : AudioManage(Cardinality(DOMAIN r.ft), ends)
    /\ nupdates' = nupdates + 1
    /\ UNCHANGED <<program, callVars, mainVars, memoryVars>>

---------------------------------------------------------------------------
(* Inputs of main.py *)

EmbA == <<5, 0>>
EmbB == <<0, 5>>

\* <<le, re, nose, lm, rm>>: a face turned to the camera, and one turned aside
LmFrontal == << <<30, 40>>, <<70, 40>>, <<50, 60>>, <<35, 80>>, <<65, 80>> >>
LmAside   == << <<30, 40>>, <<70, 40>>, <<65, 60>>, <<35, 80>>, <<65, 80>> >>

DetA      == [lm |-> LmFrontal, crop_empty |-> FALSE, emb |-> EmbA]
DetB      == [lm |-> LmFrontal, crop_empty |-> FALSE, emb |-> EmbB]
DetAside  == [lm |-> LmAside,   crop_empty |-> FALSE, emb |-> EmbA]
DetAempty == [lm |-> LmFrontal, crop_empty |-> TRUE,  emb |-> EmbA]

\* What detector.detect may return for a frame
CandidateMainFrames ==
    { <<>>, <<DetA>>, <<DetAside>>, <<DetAempty>>,
      <<DetA, DetB>>, <<DetAside, DetB>>,
      <<DetA, DetB, DetA>> }

MainFrames == {f \in CandidateMainFrames : Len(f) <= MaxDet}

\* time.time() between two frames of main.py: on the two sides of the stale
\* timeout
MainClockSteps == {STALE_FACE_TIMEOUT, STALE_FACE_TIMEOUT + 1}

---------------------------------------------------------------------------
(* main.py: main, one iteration of `while True` with a frame read; key_q is
   cv2.waitKey(1) & 0xFF == ord('q') *)
MainIteration(dets, step, key_q) ==
    /\ program = "main"
    /\ pc = "loop"
    /\ frame_count < MaxFrames
    /\ LET now     == clock + step
           elapsed == now - StartClock
           d       == IF prev_time # 0 THEN now - prev_time ELSE 0
           p       == ProcessDetections(
                          [ft |-> face_tracking, db |-> db, next_id |-> next_id,
                           fid |-> fid, raised |-> "none"],
                          dets, frame_count, elapsed, now, d)
           m       == MoveStale(p.ft, face_history, now)
       IN  /\ clock' = now
           /\ dt' = d
           /\ prev_time' = now
           /\ db' = p.db
           /\ next_id' = p.next_id
           /\ fid' = p.fid
           /\ read_ok' = TRUE
           /\ IF p.raised # "none"
              THEN /\ face_tracking' = p.ft
                   /\ UNCHANGED <<face_history, frame_count, audioVars>>
                   /\ pc' = "finally"
                   /\ exc' = p.raised
              ELSE /\ face_tracking' = m.ft
                   /\ face_history' = m.fh
                   /\ \E ends \in DeviceEnds :
                         AudioManage(Cardinality(DOMAIN m.ft), ends)
                   /\ IF key_q
                      THEN /\ pc' = "finally"
                           /\ exc' = "KeyboardInterrupt"
                           /\ UNCHANGED frame_count
                      ELSE /\ frame_count' = frame_count + 1
                           /\ UNCHANGED <<pc, exc>>
    /\ UNCHANGED <<program, callVars, report, is_raspberry_pi, teardown, trackerVars,
                   memoryVars>>

\* the positions of a KeyboardInterrupt in lines 180-183: after the first k
\* of the four updates
InterruptAfter == {1, 3}

\* An iteration left by a KeyboardInterrupt (Ctrl-C) that arrives while the
\* detection dets[at] is credited, after the first k updates of lines 180-183
MainIterationInterrupted(dets, step, at, k) ==
    /\ program = "main"
    /\ pc = "loop"
    /\ frame_count < MaxFrames
    /\ at \in 1..Len(dets)
    /\ LET now     == clock + step
           elapsed == now - StartClock
           d       == IF prev_time # 0 THEN now - prev_time ELSE 0
           p       == ProcessDetections(
                          [ft |-> face_tracking, db |-> db, next_id |-> next_id,
                           fid |-> fid, raised |-> "none"],
                          SubSeq(dets, 1, at - 1), frame_count, elapsed, now, d)
           q       == ProcessDetectionInterrupted(p, dets[at], frame_count,
                                                  elapsed, now, d, k)
       IN  /\ p.raised = "none"
           /\ ReachesCredit(p, dets[at], frame_count)
           /\ clock' = now
           /\ dt' = d
           /\ prev_time' = now
           /\ face_tracking' = q.ft
           /\ db' = q.db
           /\ next_id' = q.next_id
           /\ fid' = q.fid
           /\ exc' = q.raised
    /\ read_ok' = TRUE
    /\ pc' = "finally"
    /\ UNCHANGED <<program, callVars, face_history, frame_count, report, is_raspberry_pi,
                   teardown, trackerVars, memoryVars, audioVars>>

\* An iteration left by an exception of a collaborator: detector.detect raises
\* (at = 0), or arcface.get_embedding raises on the crop of dets[at]
MainIterationRaises(dets, step, at) ==
    /\ program = "main"
    /\ pc = "loop"
    /\ frame_count < MaxFrames
    /\ at \in 0..Len(dets)
    /\ at = 0 => dets = <<>>
    /\ LET now     == clock + step
           elapsed == now - StartClock
           d       == IF prev_time # 0 THEN now - prev_time ELSE 0
           p       == ProcessDetections(
                          [ft |-> face_tracking, db |-> db, next_id |-> next_id,
                           fid |-> fid, raised |-> "none"],
                          SubSeq(dets, 1, at - 1), frame_count, elapsed, now, d)
       IN  /\ p.raised = "none"
           /\ at > 0 => /\ frame_count % ReIdCadence = 0
                         /\ is_facing_camera(dets[at].lm)
                         /\ ~dets[at].crop_empty
           /\ clock' = now
           /\ dt' = d
           /\ prev_time' = now
           /\ face_tracking' = p.ft
           /\ db' = p.db
           /\ next_id' = p.next_id
           /\ fid' = p.fid
    /\ exc' = "Exception"
    /\ read_ok' = TRUE
    /\ pc' = "finally"
    /\ UNCHANGED <<program, callVars, face_history, frame_count, report, is_raspberry_pi,
                   teardown, trackerVars, memoryVars, audioVars>>

\* cap.read() returns ret = False: break
ReadFails ==
    /\ program = "main"
    /\ pc = "loop"
    /\ ~is_raspberry_pi
    /\ read_ok' = FALSE
    /\ pc' = "finally"
    /\ UNCHANGED <<program, callVars, clock, face_tracking, face_history, prev_time, dt,
                   db, next_id, fid, frame_count, exc, report, is_raspberry_pi,
                   teardown, trackerVars, memoryVars, audioVars>>

\* picam2.capture_array() returns None: continue
CaptureNone ==
    /\ program = "main"
    /\ pc = "loop"
    /\ is_raspberry_pi
    /\ read_ok' = FALSE
    /\ UNCHANGED <<program, callVars, clock, face_tracking, face_history, prev_time, dt,
                   db, next_id, fid, frame_count, pc, exc, report,
                   is_raspberry_pi, teardown, trackerVars, memoryVars,
                   audioVars>>

\* the finally block: the camera is released, audio.stop(), then
\* save_report(face_tracking, face_history, ...) and plot_graph(...)
Teardown ==
    /\ program = "main"
    /\ pc = "finally"
    /\ teardown' = Finally(is_raspberry_pi)
    /\ audio_calls' = Stop(audio_enabled)
    /\ playing' = DeviceAfter(playing, Stop(audio_enabled))
    /\ report' = SaveReport(face_tracking, face_history)
    /\ pc' = "done"
    /\ UNCHANGED <<program, callVars, clock, face_tracking, face_history, prev_time, dt,
                   db, next_id, fid, frame_count, exc, is_raspberry_pi, read_ok,
                   trackerVars, memoryVars,
                   audio_enabled, restart_threshold, num_tracked, nmanage>>

---------------------------------------------------------------------------
(* Inputs of a FaceMemory called on its own *)

\* further unit embeddings, times 5: cosines with EmbA 0.6, 0.8 and -1
EmbC == <<3, 4>>
EmbE == <<4, 3>>
EmbN == <<0 - 5, 0>>

Embeddings == {EmbA, EmbB, EmbC, EmbE, EmbN}

\* similarity_thresh, in hundredths: the default, and values on both sides
Thresholds == {0 - 50, 0, SimilarityThresh, 70, 100}

\* memory.get_id(emb)
GetIdCall(emb) ==
    /\ program = "memory"
    /\ ncalls < MaxCalls
    /\ LET r == GetId(db, next_id, thresh, emb)
       IN  /\ db' = r.db
           /\ next_id' = r.next_id
           /\ ret' = r.id
    /\ arg' = emb
    /\ ncalls' = ncalls + 1
    /\ UNCHANGED <<program, callVars, clock, face_tracking, face_history, prev_time, dt,
                   thresh, fid, frame_count, pc, exc, report, is_raspberry_pi,
                   read_ok, teardown, trackerVars, audioVars>>

---------------------------------------------------------------------------
(* Inputs of an AudioPlayer called on its own *)

RestartThresholds == {1, RestartThreshold, RestartThreshold + 3}

\* audio.enabled after AudioPlayer(audio_path): the campaign has an audio file
\* that vlc can play, or not. face_detection.py is run without one.
AudioConfigs(prog) ==
    IF prog \in {"main", "audio"} THEN BOOLEAN ELSE {FALSE}

\* what time_remaining() may return: None, or seconds
Remaining == {NoRem, 0, 1, RestartThreshold, RestartThreshold + 1}

\* audio.manage(n), the device having reached the end of the track since the
\* last call (ends) or not, and time_remaining() returning rem
ManageCall(n, ends, rem) ==
    /\ program = "audio"
    /\ nmanage < MaxManage
    /\ ends \in DeviceEnds
    /\ LET is_playing == IsPlaying(audio_enabled, playing /\ ~ends)
           calls      == Manage(audio_enabled, restart_threshold, is_playing, rem, n)
       IN  /\ audio_calls' = calls
           /\ playing' = DeviceAfter(playing /\ ~ends, calls)
    /\ num_tracked' = n
    /\ nmanage' = nmanage + 1
    /\ UNCHANGED <<program, callVars, clock, face_tracking, face_history, prev_time, dt,
                   trackerVars, mainVars, memoryVars, audio_enabled,
                   restart_threshold>>

---------------------------------------------------------------------------
(* Inputs of is_facing_camera called on its own *)

\* <<le, re, nose, lm, rm>> with the eyes level at y = 40 and the left eye at
\* x = 30: the right eye on the left eye or apart from it, the nose on, between
\* and beside the eyes and at, below and far below eye level, the mouth above,
\* at and below eye level. LmFrontal and LmAside are among them.
PoseRightEyeXs == {30, 70}
PoseNoseXs     == {30, 50, 65}
PoseNoseYs     == {40, 60, 75}
PoseMouthYs    == {20, 40, 80}

PoseInputs ==
    { << <<30, 40>>, <<rx, 40>>, <<nx, ny>>, <<35, my>>, <<65, my>> >> :
        rx \in PoseRightEyeXs, nx \in PoseNoseXs, ny \in PoseNoseYs,
        my \in PoseMouthYs }

\* is_facing_camera(landmarks)
IsFacingCameraCall ==
    /\ program = "pose"
    /\ ~called
    /\ output' = is_facing_camera(input)
    /\ called' = TRUE
    /\ UNCHANGED <<program, input, clock, face_tracking, face_history, prev_time,
                   dt, trackerVars, mainVars, memoryVars, audioVars>>

---------------------------------------------------------------------------
(* Inputs of SCRFD.detect called on its own *)

\* landmark regressions of a face: eyes, nose, mouth corners around the anchor
KpsFace == << <<0 - 1, 0 - 1>>, <<1, 0 - 1>>, <<0, 0>>, <<0 - 1, 1>>, <<1, 1>> >>

\* two thin boxes at the top left corner that overlap by more than 0.4
CandG == [stride |-> 8, anchor |-> <<4, 4>>, score |-> 95,
          box |-> <<0, 0, 2, 8>>, kps |-> KpsFace]
CandH == [stride |-> 8, anchor |-> <<12, 12>>, score |-> 70,
          box |-> <<0, 0, 1, 8>>, kps |-> KpsFace]
\* two small faces side by side, apart from each other
CandC == [stride |-> 8, anchor |-> <<164, 164>>, score |-> 85,
          box |-> <<1, 1, 1, 1>>, kps |-> KpsFace]
CandD == [stride |-> 8, anchor |-> <<188, 164>>, score |-> 75,
          box |-> <<1, 1, 1, 1>>, kps |-> KpsFace]
\* the same face seen from two neighbouring anchors
CandA == [stride |-> 16, anchor |-> <<72, 72>>, score |-> 90,
          box |-> <<2, 2, 2, 2>>, kps |-> KpsFace]
CandB == [stride |-> 16, anchor |-> <<88, 72>>, score |-> 80,
          box |-> <<2, 2, 2, 2>>, kps |-> KpsFace]
\* a face on its own with a low score
CandE == [stride |-> 32, anchor |-> <<272, 48>>, score |-> 55,
          box |-> <<1, 1, 1, 1>>, kps |-> KpsFace]

\* in the order of the outputs: stride 8, 16, 32, and anchor index in a stride
AllCands == <<CandG, CandH, CandC, CandD, CandA, CandB, CandE>>

DetectOuts ==
    { [i \in 1..Cardinality(S) |-> AllCands[KeysInOrder(S)[i]]] :
        S \in {T \in SUBSET (1..Len(AllCands)) : Cardinality(T) <= MaxCand} }

\* frames of 320 x 320 and of 640 x 480 (h, w)
DetectImages == { <<INPUT_SIZE, INPUT_SIZE>>, <<480, 640>> }

\* thresh, in hundredths: 0.6 as main.py calls it, and values on both sides
DetectThresholds == {50, NmsScoreThresh, 78}

\* every candidate sits on an anchor of its stride
DetectInputs ==
    { x \in [img : DetectImages, thresh : DetectThresholds, outs : DetectOuts] :
        \A i \in 1..Len(x.outs) : x.outs[i].anchor \in Anchors(x.outs[i].stride) }

\* detector.detect(img, thresh)
DetectCall ==
    /\ program = "scrfd"
    /\ ~called
    /\ output' = Detect(input.img, input.thresh, input.outs)
    /\ called' = TRUE
    /\ UNCHANGED <<program, input, clock, face_tracking, face_history, prev_time,
                   dt, trackerVars, mainVars, memoryVars, audioVars>>

---------------------------------------------------------------------------
\* The state after construction, with config.IS_RASPBERRY_PI = pi
InitConfig(pi) ==
    /\ program \in {"face_detection", "main", "memory", "audio", "pose", "scrfd"}
    /\ input \in IF program = "pose" THEN PoseInputs
                 ELSE IF program = "scrfd" THEN DetectInputs
                 ELSE {<<>>}
    /\ output = <<>>
    /\ called = FALSE
    /\ is_raspberry_pi = pi
    /\ read_ok = TRUE
    /\ teardown = <<>>
    /\ audio_enabled \in AudioConfigs(program)
    /\ restart_threshold \in IF program = "audio" THEN RestartThresholds
                                                  ELSE {RestartThreshold}
    /\ playing = FALSE
    /\ audio_calls = <<>>
    /\ num_tracked = 0
    /\ nmanage = 0
    /\ thresh \in IF program = "memory" THEN Thresholds ELSE {SimilarityThresh}
    /\ arg = <<>>
    /\ ret = NoId
    /\ ncalls = 0
    /\ clock = StartClock
    /\ face_tracking = EmptyDict
    /\ face_history = EmptyDict
    /\ prev_time = 0
    /\ dt = 0
    /\ next_face_id = 1
    /\ curr_detections = <<>>
    /\ assignments = EmptyDict
    /\ nupdates = 0
    /\ db = EmptyDict
    /\ next_id = 1
    /\ fid = NoId
    /\ frame_count = 0
    /\ pc = "loop"
    /\ exc = "none"
    /\ report = EmptyDict

\* config.py as it is in the repository
Init == InitConfig(IS_RASPBERRY_PI)

\* main.py with either camera, and with the audio of the campaign that
\* config.py names
InitCamera ==
    /\ \E pi \in BOOLEAN : InitConfig(pi)
    /\ program = "main"
    /\ audio_enabled

TrackerStep ==
    /\ nupdates < MaxUpdates
    /\ \E faces \in FrameFaces, step \in ClockSteps :
            FaceDetectionIteration(faces, step)

\* A stream of frames that each hold the same single face, no two frames
\* more than the stale timeout apart
StreamStep ==
    /\ nupdates < MaxStream
    /\ \E face \in Faces, step \in StreamSteps :
            /\ nupdates > 0 => face = curr_detections[1].rect
            /\ FaceDetectionIteration(<<face>>, step)

MainStep ==
    \E dets \in MainFrames, step \in MainClockSteps, key_q \in BOOLEAN :
        MainIteration(dets, step, key_q)

TrackerNext == TrackerStep

MainNext == MainStep \/ ReadFails \/ Teardown

\* the frames of the runs with interrupts and failing collaborators
MainFaultFrames == { <<>>, <<DetA>>, <<DetA, DetB>> }

MainFaultStep ==
    \E dets \in MainFaultFrames, step \in MainClockSteps, key_q \in BOOLEAN :
        MainIteration(dets, step, key_q)

MainInterruptedStep ==
    \E dets \in MainFaultFrames, step \in MainClockSteps, at \in 1..MaxDet,
       k \in InterruptAfter :
        MainIterationInterrupted(dets, step, at, k)

MainRaisesStep ==
    \E dets \in MainFaultFrames, step \in MainClockSteps, at \in 0..MaxDet :
        MainIterationRaises(dets, step, at)

\* main.py with either camera, interrupts and failing collaborators
MainFaultNext ==
    MainFaultStep \/ MainInterruptedStep \/ MainRaisesStep \/ ReadFails
        \/ CaptureNone \/ Teardown

MemoryNext == \E emb \in Embeddings : GetIdCall(emb)

AudioNext ==
    \E n \in 0..MaxTracked, ends \in BOOLEAN, rem \in Remaining :
        ManageCall(n, ends, rem)

PoseNext == IsFacingCameraCall

ScrfdNext == DetectCall

Next == TrackerNext \/ MainNext \/ MemoryNext \/ AudioNext \/ PoseNext
            \/ ScrfdNext

\* both programs
Spec == Init /\ [][Next]_vars

\* face_detection.py with FaceTracker
SpecTracker == Init /\ [][TrackerNext]_vars

\* main.py
SpecMain == Init /\ [][MainNext]_vars

\* main.py with either camera, interrupts and failing collaborators
SpecMainFault == InitCamera /\ [][MainFaultNext]_vars

\* the same; the finally block runs once the loop is left
SpecMainFaultLive == SpecMainFault /\ WF_vars(Teardown)

\* a FaceMemory called on its own
SpecMemory == Init /\ [][MemoryNext]_vars

\* an AudioPlayer called on its own
SpecAudio == Init /\ [][AudioNext]_vars

\* is_facing_camera called on its own
SpecPose == Init /\ [][PoseNext]_vars

\* SCRFD.detect called on its own
SpecScrfd == Init /\ [][ScrfdNext]_vars

\* face_detection.py on a constant stream of one face
SpecStream == Init /\ [][StreamStep]_vars

---------------------------------------------------------------------------
(* Claims *)

Range(f) == {f[x] : x \in DOMAIN f}

\* the detections of the last update that no active face was matched to
Unmatched == {i \in 1..Len(curr_detections) : i \notin DOMAIN assignments}

\* the clock has not been seen to step back: no negative dt, elapsed time or
\* credited time
SteadyClock ==
    /\ dt >= 0
    /\ \A f \in DOMAIN face_tracking :
          face_tracking[f].attention_time >= 0 /\ face_tracking[f].start_time >= 0
    /\ \A f \in DOMAIN face_history :
          face_history[f].attention_time >= 0 /\ face_history[f].start_time >= 0

\* C1: every entity, active or in history, of either program has
\* attention_time <= total_time after every iteration.
C1_AttentionAtMostTotal ==
    /\ \A f \in DOMAIN face_tracking :
          face_tracking[f].attention_time <= face_tracking[f].total_time
    /\ \A f \in DOMAIN face_history :
          face_history[f].attention_time <= face_history[f].total_time

\* an evicted entity and an active one, both with time credited
C1_Witness ==
    /\ \E f \in DOMAIN face_history : face_history[f].attention_time > 0
    /\ \E f \in DOMAIN face_tracking : face_tracking[f].attention_time > 0

\* C2 (as claimed): in an iteration of main.py with dt > 0 whose frame holds a
\* non-frontal detection of a person whose identity is active, that entity's
\* total_time grows by dt and its attention_time is unchanged.
C2_NonFrontalAccruesTotal ==
    [][\A dets \in MainFrames, step \in MainClockSteps, key_q \in BOOLEAN :
          MainIteration(dets, step, key_q) =>
             \A k \in 1..Len(dets) : \A id \in DOMAIN face_tracking :
                (/\ dt' > 0
                 /\ SteadyClock
                 /\ ~is_facing_camera(dets[k].lm)
                 /\ id \in DOMAIN db
                 /\ db[id] = dets[k].emb)
                => /\ id \in DOMAIN face_tracking'
                   /\ face_tracking'[id].total_time = face_tracking[id].total_time + dt'
                   /\ face_tracking'[id].attention_time = face_tracking[id].attention_time
      ]_vars

\* C3: in one update the assignment is one-to-one: no active id is assigned to
\* two detections, and the ids of the returned detections, the new ones
\* included, are pairwise distinct.
C3_OneToOne ==
    /\ DOMAIN assignments \subseteq 1..Len(curr_detections)
    /\ \A i, j \in DOMAIN assignments : i # j => assignments[i] # assignments[j]
    /\ \A i, j \in 1..Len(curr_detections) :
          i # j => curr_detections[i].face_id # curr_detections[j].face_id

\* two detections 10 px apart, both within the gate of the same active face:
\* the second one took the face, the first one did not
C3_Witness ==
    \E i \in DOMAIN assignments : \E j \in Unmatched :
        /\ j < i
        /\ curr_detections[j].center = <<60, 50>>
        /\ curr_detections[i].center = <<50, 50>>
        /\ face_tracking[assignments[i]].last_seen = clock
        /\ face_tracking[assignments[i]].total_time > 0

\* C4: a detection is matched to an active face only if their centres are at
\* most max(50, 0.6 * max(w, h)) apart: d <= 50 or 10 d <= 6 max(w, h).
C4_MatchedWithinGate ==
    [][\A i \in DOMAIN assignments' :
          /\ assignments'[i] \in DOMAIN face_tracking
          /\ LET p  == face_tracking[assignments'[i]].center
                 c  == curr_detections'[i].center
                 w  == curr_detections'[i].rect[3]
                 h  == curr_detections'[i].rect[4]
                 m  == IF w >= h THEN w ELSE h
                 d2 == (p[1] - c[1]) * (p[1] - c[1]) + (p[2] - c[2]) * (p[2] - c[2])
             IN  d2 <= 50 * 50 \/ 100 * d2 <= 36 * m * m
      ]_vars

\* one detection was matched while another stayed unmatched though an older,
\* unclaimed face was 56 px away, beyond that detection's gate of 50
C4_Witness ==
    /\ DOMAIN assignments # {}
    /\ \E j \in Unmatched : \E f \in DOMAIN face_tracking \ Range(assignments) :
          /\ face_tracking[f].last_seen < clock
          /\ curr_detections[j].rect = FaceF
          /\ face_tracking[f].center = <<50, 50>>

\* C5: in one update every unmatched detection gets a new id and a new entity
\* whose counters were zero before this frame's dt was credited, every matched
\* detection reuses the id of the face it was matched to, and the number of new
\* ids is the number of unmatched detections; a detection beyond its gate from
\* every active face is unmatched.
C5_UnmatchedMintMatchedReuse ==
    [][LET n      == Len(curr_detections')
           minted == {i \in 1..n : i \notin DOMAIN assignments'}
       IN  /\ next_face_id' - next_face_id = Cardinality(minted)
           /\ \A i \in minted :
                 LET id == curr_detections'[i].face_id
                 IN  /\ id \notin DOMAIN face_tracking \cup DOMAIN face_history
                     /\ id \in DOMAIN face_tracking'
                     /\ face_tracking'[id].total_time = dt'
                     /\ face_tracking'[id].attention_time = dt'
           /\ \A i \in DOMAIN assignments' :
                 /\ curr_detections'[i].face_id = assignments'[i]
                 /\ assignments'[i] \in DOMAIN face_tracking
           /\ \A i \in 1..n :
                 (\A f \in DOMAIN face_tracking :
                     LET p  == face_tracking[f].center
                         c  == curr_detections'[i].center
                         w  == curr_detections'[i].rect[3]
                         h  == curr_detections'[i].rect[4]
                         m  == IF w >= h THEN w ELSE h
                         d2 == (p[1] - c[1]) * (p[1] - c[1]) + (p[2] - c[2]) * (p[2] - c[2])
                     IN  ~(d2 <= 50 * 50 \/ 100 * d2 <= 36 * m * m))
                 => i \in minted
      ]_vars

\* a call with dt # 0 that matched one detection and minted an id for another
C5_Witness ==
    /\ dt # 0
    /\ DOMAIN assignments # {}
    /\ Unmatched # {}

\* C6: ids are minted 1, 2, 3, ... without gaps, in the order of the detections,
\* and a minted id is never given to another entity, also after its entity was
\* evicted: every id in use is below next_face_id, the ids a call mints are
\* next_face_id, next_face_id + 1, ..., and every entity keeps its id.
C6_IdsMonotonicNeverReused ==
    [][LET n      == Len(curr_detections')
           minted == {i \in 1..n : i \notin DOMAIN assignments'}
           known  == DOMAIN face_tracking \cup DOMAIN face_history
       IN  /\ nupdates = 0 => next_face_id = 1
           /\ known = 1..(next_face_id - 1)
           /\ \A i \in minted :
                 curr_detections'[i].face_id =
                    next_face_id + Cardinality({j \in minted : j < i})
           /\ next_face_id' = next_face_id + Cardinality(minted)
           /\ known \subseteq DOMAIN face_tracking' \cup DOMAIN face_history'
           /\ \A f \in DOMAIN face_history :
                 f \in DOMAIN face_history' /\ face_history'[f] = face_history[f]
      ]_vars

\* a single detection at the place of an evicted face got a new, larger id
C6_Witness ==
    /\ Len(curr_detections) = 1
    /\ Unmatched = {1}
    /\ \E f \in DOMAIN face_history :
          /\ face_history[f].center = curr_detections[1].center
          /\ curr_detections[1].face_id > f

C8_MainActiveHistoryDisjoint ==
    (program = "main" /\ SteadyClock) =>
        DOMAIN face_tracking \cap DOMAIN face_history = {}

\* C9 (as claimed): in main.py a record moved into face_history is never
\* changed or replaced by a later iteration, and the report shows it (here: in
\* a run with a steady clock).
C9_MainHistoryImmutable ==
    [][(program = "main" /\ SteadyClock /\ SteadyClock') =>
          /\ \A f \in DOMAIN face_history :
                f \in DOMAIN face_history' /\ face_history'[f] = face_history[f]
          /\ pc' = "done" =>
                \A f \in DOMAIN face_history' : report'[f] = face_history'[f]
      ]_vars

\* C10: on a stream of frames that each hold the same single face, no two more
\* than the stale timeout apart, every update returns id 1 and no second id is
\* minted.
C10_ConstantStreamKeepsId ==
    nupdates > 0 =>
        /\ curr_detections[1].face_id = 1
        /\ next_face_id = 2
        /\ DOMAIN face_tracking = {1}
        /\ DOMAIN face_history = {}

\* the third frame or a later one of such a stream, a full timeout after the
\* frame before it
C10_Witness ==
    /\ nupdates >= 3
    /\ dt = STALE_FACE_TIMEOUT
    /\ Len(curr_detections) = 1
    /\ 1 \in DOMAIN face_tracking

\* C11: an active face that an update matches no detection to is still active
\* afterwards when now - last_seen <= STALE_FACE_TIMEOUT, equality included;
\* when now - last_seen > STALE_FACE_TIMEOUT it is no longer active and
\* face_history holds, under its id, the record it had before the call.
C11_StaleBoundary ==
    [][\A f \in DOMAIN face_tracking \ Range(assignments') :
          IF clock' - face_tracking[f].last_seen <= 3
          THEN f \in DOMAIN face_tracking'
          ELSE /\ f \notin DOMAIN face_tracking'
               /\ f \in DOMAIN face_history'
               /\ face_history'[f] = face_tracking[f]
      ]_vars

\* after an update with no detection one face is active exactly a timeout
\* after it was last seen, and another is in face_history
C11_Witness ==
    /\ program = "face_detection"
    /\ curr_detections = <<>>
    /\ \E f \in DOMAIN face_tracking : clock - face_tracking[f].last_seen = 3
    /\ \E f \in DOMAIN face_history : clock - face_history[f].last_seen > 3

\* C12: an update leaves every field of an active face that no detection of
\* the call references unchanged, whether the face stays active or is moved to
\* face_history; an update with no detection mints no id, adds no face and
\* changes no record, it can only evict.
C12_UnreferencedUntouched ==
    [][LET referenced ==
              {curr_detections'[i].face_id : i \in 1..Len(curr_detections')}
       IN  /\ \A f \in DOMAIN face_tracking \ referenced :
                 /\ f \in DOMAIN face_tracking' => face_tracking'[f] = face_tracking[f]
                 /\ f \notin DOMAIN face_tracking' =>
                       f \in DOMAIN face_history' /\ face_history'[f] = face_tracking[f]
           /\ (nupdates' = nupdates + 1 /\ curr_detections' = <<>>) =>
                 /\ next_face_id' = next_face_id
                 /\ DOMAIN face_tracking' \subseteq DOMAIN face_tracking
                 /\ \A f \in DOMAIN face_history :
                       f \in DOMAIN face_history' /\ face_history'[f] = face_history[f]
      ]_vars

\* after an update with no detection and dt > 0 a face is still active, with
\* the last_seen and the credited time of an earlier frame
C12_Witness ==
    /\ nupdates >= 2
    /\ curr_detections = <<>>
    /\ dt > 0
    /\ \E f \in DOMAIN face_tracking :
          face_tracking[f].last_seen < clock /\ face_tracking[f].total_time > 0

\* C13: a face leaves the active table only in an iteration of the loop (an
\* update call), and only a face whose last_seen is more than the timeout
\* before the time of that call; a face that was last seen more than the
\* timeout before a call and is matched by a detection of that call (the only
\* detection at its centre, where no other face is) keeps its id and stays
\* active.
C13_EvictionOnlyInUpdate ==
    [][/\ \A f \in DOMAIN face_tracking \ DOMAIN face_tracking' :
             /\ prev_time' = clock'
             /\ nupdates' = nupdates + 1 \/ frame_count' = frame_count + 1
                    \/ pc' = "finally"
             /\ f \in DOMAIN face_history'
             /\ clock' - face_history'[f].last_seen > 3
       /\ (clock' = clock) => DOMAIN face_tracking' = DOMAIN face_tracking
       /\ \A f \in DOMAIN face_tracking : \A i \in 1..Len(curr_detections') :
             (/\ clock' - face_tracking[f].last_seen > 3
              /\ curr_detections'[i].center = face_tracking[f].center
              /\ \A g \in DOMAIN face_tracking \ {f} :
                    face_tracking[g].center # face_tracking[f].center
              /\ \A j \in 1..Len(curr_detections') \ {i} :
                    curr_detections'[j].center # curr_detections'[i].center)
             => /\ curr_detections'[i].face_id = f
                /\ f \in DOMAIN face_tracking'
                /\ face_tracking'[f].last_seen = clock'
      ]_vars

\* more than the timeout after the frame before, a detection took the id of a
\* face that had time credited before
C13_Witness ==
    /\ program = "face_detection"
    /\ dt > 3
    /\ \E i \in DOMAIN assignments :
          /\ curr_detections[i].face_id = assignments[i]
          /\ assignments[i] \in DOMAIN face_tracking
          /\ face_tracking[assignments[i]].total_time > dt
          /\ \A j \in 1..Len(curr_detections) \ {i} :
                curr_detections[j].center # curr_detections[i].center

\* C14 (as claimed): for any memory and any unit embedding, a get_id call with
\* the embedding of the call before it returns the same id and does not add a
\* record.
C14_GetIdIdempotentAnyMemory ==
    [][\A emb \in Embeddings :
          (GetIdCall(emb) /\ arg = emb) => (ret' = ret /\ db' = db)
      ]_vars

\* C14 (amended): when the threshold is below the similarity of the embedding
\* with itself, a get_id call with the embedding of the call before it returns
\* the same id and leaves the memory as it was.
C14_GetIdIdempotent ==
    [][\A emb \in Embeddings :
          (GetIdCall(emb) /\ arg = emb /\ thresh < Cosine(emb, emb)) =>
              /\ ret' = ret
              /\ db' = db
              /\ next_id' = next_id
      ]_vars

\* two calls with the same embedding under the default threshold: the first
\* stored it under id 1, the second returned id 1
C14_Witness ==
    /\ program = "memory"
    /\ thresh = SimilarityThresh
    /\ ncalls = 2
    /\ ret = 1
    /\ DOMAIN db = {1}
    /\ db[1] = arg

\* C15 (as claimed): get_id on an empty memory returns id 1 and stores the
\* embedding under id 1, for every embedding and every threshold.
C15_EmptyMemoryYieldsOne ==
    [][\A emb \in Embeddings :
          (GetIdCall(emb) /\ db = EmptyDict) =>
              /\ ret' = 1
              /\ db' = DictSet(EmptyDict, 1, emb)
      ]_vars

\* the stored ids with the greatest similarity to emb
BestIds(store, emb) ==
    {i \in DOMAIN store :
        \A j \in DOMAIN store : Cosine(emb, store[j]) <= Cosine(emb, store[i])}

\* C16 (as claimed): get_id(e) returns a stored id of greatest similarity to e
\* when that similarity is above the threshold, and leaves the memory as it
\* was; otherwise it returns next_id, which is above every stored id, and
\* stores e under it.
C16_GetIdMaxOrMint ==
    [][\A emb \in Embeddings :
          GetIdCall(emb) =>
              IF \E i \in DOMAIN db : Cosine(emb, db[i]) > thresh
              THEN /\ ret' \in BestIds(db, emb)
                   /\ db' = db
              ELSE /\ ret' = next_id
                   /\ \A i \in DOMAIN db : i < ret'
                   /\ db' = DictSet(db, ret', emb)
                   /\ next_id' = next_id + 1
      ]_vars

\* C17: no stored record is removed or changed by a call, a call that returns
\* a stored id leaves the memory as it was, and the stored ids are always
\* 1..next_id-1.
C17_RecordsPermanent ==
    [][/\ \A i \in DOMAIN db : i \in DOMAIN db' /\ db'[i] = db[i]
       /\ (ret' \in DOMAIN db /\ ncalls' = ncalls + 1) =>
             db' = db /\ next_id' = next_id
       /\ DOMAIN db = 1..(next_id - 1)
       /\ DOMAIN db' = 1..(next_id' - 1)
      ]_vars

\* three records, and a last call that matched the second one with another
\* embedding than the stored one
C17_Witness ==
    /\ program = "memory"
    /\ DOMAIN db = {1, 2, 3}
    /\ ret = 2
    /\ arg # db[2]

\* C18 (as claimed): in an iteration of main.py that does not re-identify
\* (frame_count % 10 # 0), every frontal detection with a crop is credited to
\* the identity of its own person (the id whose stored embedding is that
\* person's): that identity is active afterwards and was seen at this frame.
C18_CreditedToOwnIdentity ==
    [][\A dets \in MainFrames, step \in MainClockSteps, key_q \in BOOLEAN :
          (MainIteration(dets, step, key_q)
             /\ SteadyClock /\ SteadyClock'
             /\ frame_count % ReIdCadence # 0) =>
             \A k \in 1..Len(dets) : \A id \in DOMAIN db :
                (/\ is_facing_camera(dets[k].lm)
                 /\ ~dets[k].crop_empty
                 /\ db[id] = dets[k].emb)
                => /\ id \in DOMAIN face_tracking'
                   /\ face_tracking'[id].last_seen = clock'
      ]_vars

C20_ManageNeverStops ==
    [][/\ ("stop" \in Range(audio_calls')) =>
             (program = "main" /\ pc = "finally" /\ pc' = "done")
       /\ \A n \in 0..MaxTracked, ends \in BOOLEAN, rem \in Remaining :
             (ManageCall(n, ends, rem) /\ playing /\ ~ends) =>
                 (playing' /\ audio_calls' = <<>>)
      ]_vars

\* the track plays on after a manage call with nobody tracked
C20_Witness ==
    /\ program = "audio"
    /\ audio_enabled
    /\ nmanage >= 2
    /\ num_tracked = 0
    /\ playing
    /\ audio_calls = <<>>

---------------------------------------------------------------------------
\* C21: loop-while-present. With audio enabled, a manage call that finds the
\* device not playing restarts the track when the active count is > 0 (play()
\* is called and the device plays again), and leaves the device stopped when
\* the count is 0. In the loop of main.py, which calls manage every iteration,
\* the device therefore plays after every iteration that ends with a tracked
\* face, and a silent device stays silent while nobody is tracked.
C21_LoopWhilePresent ==
    [][/\ \A n \in 0..MaxTracked, ends \in BOOLEAN, rem \in Remaining :
             (ManageCall(n, ends, rem) /\ audio_enabled /\ ~(playing /\ ~ends)) =>
                 IF n > 0 THEN audio_calls' = <<"play">> /\ playing'
                          ELSE audio_calls' = <<>> /\ ~playing'
       /\ ( /\ program = "main" /\ audio_enabled /\ pc = "loop"
            /\ frame_count' # frame_count ) =>
                 /\ Cardinality(DOMAIN face_tracking') > 0 => playing'
                 /\ (Cardinality(DOMAIN face_tracking') = 0 /\ ~playing) =>
                        (~playing' /\ audio_calls' = <<>>)
      ]_vars

\* Identity 1 has been tracked since the first frame of main.py (so the track
\* was started then), and the manage call of a later frame has restarted it.
C21_Witness ==
    /\ program = "main" /\ audio_enabled /\ frame_count >= 2
    /\ 1 \in DOMAIN face_tracking
    /\ face_tracking[1].start_time <= STALE_FACE_TIMEOUT + 1
    /\ audio_calls = <<"play">> /\ playing

---------------------------------------------------------------------------
---------------------------------------------------------------------------
\* C23: when, at a manage call, the remaining playback time is known and is
\* <= restart_threshold, play() is called if num_tracked > 0 (the track is
\* restarted), and no call is made if num_tracked = 0 (the track is left to
\* finish).
C23_RestartNearEnd ==
    [][\A n \in 0..MaxTracked, ends \in BOOLEAN, rem \in Remaining :
          ( /\ ManageCall(n, ends, rem) /\ audio_enabled
            /\ rem # NoRem /\ rem <= restart_threshold ) =>
              IF n > 0 THEN audio_calls' = <<"play">>
                       ELSE audio_calls' = <<>>
      ]_vars

---------------------------------------------------------------------------
\* C24: every exit from the main loop of main.py (the read fails, the quit key
\* or a KeyboardInterrupt, an exception while a frame is processed) leads to
\* the finally block and nowhere else, and the finally block runs to its end:
\* it releases the camera, calls audio.stop(), calls save_report, which
\* writes the union of face_history and face_tracking as they stood at the
\* exit, and then calls plot_graph.
C24_TeardownOnEveryExit ==
    /\ [][/\ (pc = "loop" /\ pc' # "loop") => pc' = "finally"
          /\ pc = "finally" =>
                /\ pc' = "done"
                /\ UNCHANGED <<face_tracking, face_history>>
                /\ teardown' = <<IF is_raspberry_pi THEN "picam2.stop"
                                                    ELSE "cap.release",
                                 "audio.stop", "save_report", "plot_graph">>
                /\ audio_enabled => (audio_calls' = <<"stop">> /\ ~playing')
                /\ DOMAIN report' = DOMAIN face_history \cup DOMAIN face_tracking
                /\ \A f \in DOMAIN report' :
                      report'[f] = IF f \in DOMAIN face_tracking
                                   THEN face_tracking[f] ELSE face_history[f]
         ]_vars
    /\ (pc = "finally") ~> (pc = "done")

\* The detector raised while faces were tracked and others had been moved to
\* face_history; the finally block has run.
C24_Witness ==
    /\ program = "main" /\ pc = "done" /\ exc = "Exception"
    /\ DOMAIN face_tracking # {} /\ DOMAIN face_history # {}
    /\ DOMAIN report = DOMAIN face_tracking \cup DOMAIN face_history
    /\ audio_enabled /\ audio_calls = <<"stop">>
    /\ teardown # <<>>

---------------------------------------------------------------------------
\* C25: when the frame acquisition fails (cap.read() returns ret = False, or
\* picam2.capture_array() returns None), the main loop is left for the
\* finally block, and face_tracking, face_history and the identity memory are
\* what they were at the end of the last completed iteration.
C25_InputExhaustedEndsLoop ==
    [][(program = "main" /\ pc = "loop" /\ ~read_ok') =>
           /\ pc' = "finally"
           /\ UNCHANGED <<face_tracking, face_history, db, next_id>>
      ]_vars

---------------------------------------------------------------------------
\* C28: per-frame mutation is atomic. When an iteration of main.py is left by
\* an exception or an interrupt, every tracked entity is either as it was
\* before the frame, or has all four per-frame fields updated for the frame:
\* last_seen and end_time are those of the frame, and total_time and
\* attention_time have both grown by dt, once per credited detection.
C28_FailedFrameAtomic ==
    [][(program = "main" /\ pc = "loop" /\ pc' = "finally" /\ read_ok') =>
           \A f \in DOMAIN face_tracking' :
               LET new == face_tracking'[f]
                   old == IF f \in DOMAIN face_tracking THEN face_tracking[f]
                          ELSE [attention_time |-> 0, total_time |-> 0]
               IN  \/ f \in DOMAIN face_tracking /\ new = face_tracking[f]
                   \/ /\ new.last_seen = clock'
                      /\ new.end_time = clock' - StartClock
                      /\ \E c \in 1..MaxDet :
                            /\ new.total_time = old.total_time + c * dt'
                            /\ new.attention_time = old.attention_time + c * dt'
      ]_vars

---------------------------------------------------------------------------
\* C26: is_facing_camera classifies degenerate landmarks as non-frontal:
\* when the horizontal eye distance is 0, or the mouth midpoint and the eye
\* midpoint are at the same height, the result is False, wherever the nose is.
C26_DegenerateNonFrontal ==
    (program = "pose" /\ called) =>
        LET le == input[1]  re == input[2]  lm == input[4]  rm == input[5]
        IN  ( \/ le[1] = re[1]
              \/ lm[2] + rm[2] = le[2] + re[2] ) => output = FALSE

---------------------------------------------------------------------------
\* C29: attention_time and total_time of an entity never decrease from one
\* update to the next, whatever dt the update is given.
C29_TimesNeverDecrease ==
    [][\A f \in DOMAIN face_tracking \cap DOMAIN face_tracking' :
          /\ face_tracking'[f].attention_time >= face_tracking[f].attention_time
          /\ face_tracking'[f].total_time >= face_tracking[f].total_time
      ]_vars

---------------------------------------------------------------------------
\* the candidates of the call (the anchors with scores > thresh), and the
\* overlap of two corner boxes <<x1, y1, x2, y2>> being > 0.4
DetectCandidates == Masked(input.outs, input.thresh)

CornerInter(a, b) ==
    LET w == (IF a[3] <= b[3] THEN a[3] ELSE b[3]) - Max2(a[1], b[1])
        h == (IF a[4] <= b[4] THEN a[4] ELSE b[4]) - Max2(a[2], b[2])
    IN  IF w <= 0 \/ h <= 0 THEN 0 ELSE w * h

CornerIoUExceeds(a, b) ==
    LET i == CornerInter(a, b)
        u == (a[3] - a[1]) * (a[4] - a[2]) + (b[3] - b[1]) * (b[4] - b[2]) - i
    IN  10 * i > 4 * u

\* C27: among the boxes SCRFD.detect returns no two have IoU > 0.4, the IoU
\* being that of their corner boxes (x1, y1, x2, y2); and a candidate with a
\* score > 0.6 is left out only if its IoU with a returned box of a higher
\* score is > 0.4.
C27_NmsOnCornerBoxes ==
    (program = "scrfd" /\ called) =>
        LET pre  == Preprocess(input.img)
            cand == DetectCandidates
        IN  /\ \A i, j \in 1..Len(output.boxes) :
                  i # j => ~CornerIoUExceeds(output.boxes[i], output.boxes[j])
            /\ \A i \in 1..Len(cand) :
                  (cand[i].score > NmsScoreThresh /\ i \notin Range(output.keep)) =>
                      \E k \in Range(output.keep) :
                          /\ cand[k].score >= cand[i].score
                          /\ CornerIoUExceeds(DecodeBox(cand[k], pre),
                                              DecodeBox(cand[i], pre))

---------------------------------------------------------------------------
\* C30: the landmarks SCRFD.detect returns are decoded as the box corners
\* are: each coordinate is (anchor centre + regression * stride - padding)
\* / scale.
C30_LandmarksDecodedFromAnchor ==
    (program = "scrfd" /\ called) =>
        LET pre  == Preprocess(input.img)
            cand == DetectCandidates
        IN  \A i \in 1..Len(output.keep) :
                LET c == cand[output.keep[i]]
                IN  \A j \in 1..NumKps :
                        output.kps[i][j] =
                            << ((c.anchor[1] + c.kps[j][1] * c.stride - pre.left)
                                    * pre.den) \div pre.num,
                               ((c.anchor[2] + c.kps[j][2] * c.stride - pre.top)
                                    * pre.den) \div pre.num >>

---------------------------------------------------------------------------
\* C31: SCRFD.detect honours the score threshold it is called with: every
\* returned detection has a score > thresh; every candidate with a score >
\* thresh whose corner box has IoU <= 0.4 with every candidate of a higher
\* score is returned; and when no candidate has a score > thresh the result
\* is the empty pair.
C31_HonoursScoreThreshold ==
    (program = "scrfd" /\ called) =>
        LET pre  == Preprocess(input.img)
            cand == DetectCandidates
        IN  /\ \A i \in Range(output.keep) : cand[i].score > input.thresh
            /\ \A i \in 1..Len(cand) :
                  (\A j \in 1..Len(cand) :
                      (j # i /\ cand[j].score > cand[i].score) =>
                          ~CornerIoUExceeds(DecodeBox(cand[j], pre),
                                            DecodeBox(cand[i], pre)))
                      => i \in Range(output.keep)
            /\ cand = <<>> => (output.boxes = <<>> /\ output.kps = <<>>)

---------------------------------------------------------------------------
\* C32: in the frame loop of main.py an identity id is resolved before it is
\* used: the loop is never left by the error of reading fid before get_id has
\* assigned it, also when the first frontal detection with a crop arrives on
\* a frame whose index is not a multiple of 10.
C32_IdResolvedBeforeUse ==
    program = "main" =>
        /\ exc # "UnboundLocalError"
        /\ DOMAIN face_tracking # {} => fid # NoId

---------------------------------------------------------------------------
\* the squared centroid distance of the detection det and the entity e, and
\* it being within the gate max(50, 0.6 * max(w, h)) of the detection
CentroidDist2(det, e) ==
    (det.center[1] - e.center[1]) * (det.center[1] - e.center[1])
        + (det.center[2] - e.center[2]) * (det.center[2] - e.center[2])

InGate(det, e) ==
    LET side == IF det.rect[3] >= det.rect[4] THEN det.rect[3] ELSE det.rect[4]
        gate == IF 6 * side >= 500 THEN 6 * side ELSE 500
    IN  100 * CentroidDist2(det, e) <= gate * gate

\* C33: the greedy assignment of FaceTracker.update is maximal. After an
\* update no detection left unmatched and active entity left unclaimed are
\* within the gate of the detection; and when a pair of the smallest distance
\* is within the gate, a pair of the smallest distance is matched.
C33_GreedyMaximal ==
    [][nupdates' # nupdates =>
          LET dets  == curr_detections'
              pairs == (1..Len(dets)) \X DOMAIN face_tracking
              least(p) == \A q \in pairs :
                              CentroidDist2(dets[p[1]], face_tracking[p[2]])
                                  <= CentroidDist2(dets[q[1]], face_tracking[q[2]])
              matched(p) == p[1] \in DOMAIN assignments' /\ assignments'[p[1]] = p[2]
          IN  /\ \A p \in pairs :
                    (p[1] \notin DOMAIN assignments' /\ p[2] \notin Range(assignments'))
                        => ~InGate(dets[p[1]], face_tracking[p[2]])
              /\ (\E p \in pairs : least(p) /\ InGate(dets[p[1]], face_tracking[p[2]]))
                    => \E p \in pairs : least(p) /\ matched(p)
      ]_vars

\* An update matched one of two detections and minted an id for the other,
\* while an entity that was active before is left unclaimed.
C33_Witness ==
    /\ program = "face_detection" /\ Len(curr_detections) = 2
    /\ Cardinality(DOMAIN assignments) = 1
    /\ \E f \in DOMAIN face_tracking :
          /\ f \notin Range(assignments)
          /\ face_tracking[f].last_seen < clock
          /\ f \notin {curr_detections[i].face_id : i \in 1..2}

---------------------------------------------------------------------------
\* C34: in one iteration of the loop of main.py the total_time and the
\* attention_time of an identity grow by at most the dt of the iteration,
\* however many detections the frame holds.
C34_AtMostDtPerIteration ==
    [][(program = "main" /\ pc = "loop" /\ frame_count' # frame_count) =>
          \A f \in DOMAIN face_tracking' :
              LET old == IF f \in DOMAIN face_tracking THEN face_tracking[f]
                         ELSE [total_time |-> 0, attention_time |-> 0]
              IN  /\ face_tracking'[f].total_time - old.total_time <= dt'
                  /\ face_tracking'[f].attention_time - old.attention_time <= dt'
      ]_vars

---------------------------------------------------------------------------
\* C35: with a threshold >= 0, every two stored identity embeddings have a
\* cosine similarity <= the threshold, and a get_id call that mints an
\* identity was given an embedding whose similarity with every stored one is
\* <= the threshold.
C35_StoredIdentitiesApart ==
    [][(program = "memory" /\ thresh >= 0) =>
          /\ \A i, j \in DOMAIN db' : i < j => Cosine(db'[j], db'[i]) <= thresh
          /\ db' # db => \A i \in DOMAIN db : Cosine(arg', db[i]) <= thresh
      ]_vars

\* three identities stored under the threshold 0.7, and a call that matched
\* one of them: the call returned an id below the last one minted
C35_Witness ==
    /\ program = "memory"
    /\ thresh = 70
    /\ Cardinality(DOMAIN db) = 3
    /\ ncalls = 4
    /\ ret < 3
    /\ \E i \in DOMAIN db : Cosine(arg, db[i]) > thresh

====
